---------------------------- MODULE Spec2Model ----------------------------
(***************************************************************************)
(* Versioned routing of the GOV.UK prototype kit example.                   *)
(*                                                                         *)
(* app/routes.js mounts one router per version (/v1, /v2).  Each version's  *)
(* routing.js registers a middleware that replaces res.redirect by a        *)
(* wrapper prefixing root-relative targets with req.baseUrl, and four POST  *)
(* handlers that redirect between question pages.                           *)
(*                                                                         *)
(* Strings are sequences of one-character strings, so that                  *)
(* String.prototype.startsWith and + are computed character by character.   *)
(*                                                                         *)
(* Two specifications:                                                      *)
(*   Spec          browsers submitting the question forms; every request    *)
(*                 walks the version router's layer stack (middleware,      *)
(*                 then the matching handler), requests interleave.         *)
(*   SpecRedirect  one call of the wrapped res.redirect with an arbitrary   *)
(*                 string target under an arbitrary mounted prefix, and a   *)
(*                 second call on the first call's output.                  *)
(***************************************************************************)
EXTENDS Integers, Sequences, FiniteSets

VARIABLES clients, call

vars == <<clients, call>>

---------------------------------------------------------------------------
(* Bounds *)

\* Longest enumerated redirect target (SpecRedirect).
MaxLen == 4

\* Number of browsers submitting forms concurrently (Spec).
NumClients == 2

---------------------------------------------------------------------------
(* Strings *)

Slash == <<"/">>

V1 == <<"/", "v", "1">>

V2 == <<"/", "v", "2">>

Question1 == <<"/", "q", "u", "e", "s", "t", "i", "o", "n", "-", "1">>

Question2 == <<"/", "q", "u", "e", "s", "t", "i", "o", "n", "-", "2">>

Nested == <<"/", "n", "e", "s", "t", "e", "d">>

NestedQuestion1 == Nested \o Question1

NestedQuestion2 == Nested \o Question2

\* Characters of the enumerated targets.
Alphabet == {"/", "v", "1", "2", "q"}

\* Every character that occurs in a string of the model.
Char == Alphabet \cup {"u", "e", "s", "t", "i", "o", "n", "-", "d", "h", "p",
                       ":", "x", "a", "m", "l", ".", "c", "0", "r"}

\* All strings over Alphabet of length at most n.
Strs(n) == UNION {[1..k -> Alphabet] : k \in 0..n}

\* String.prototype.startsWith
StartsWith(s, p) == Len(p) <= Len(s) /\ SubSeq(s, 1, Len(p)) = p

---------------------------------------------------------------------------
(* app/routes.js: the main router *)

\* router.use('/v1', ...); router.use('/v2', ...), in registration order.
Mounts == <<V1, V2>>

MountSet == {Mounts[i] : i \in 1..Len(Mounts)}

\* Express matches a mount path on a path-segment boundary.
MountMatches(m, url) == url = m \/ StartsWith(url, m \o Slash)

\* The mount a request URL is dispatched to; <<>> when no router is mounted there.
MountOf(url) ==
    LET hits == {i \in 1..Len(Mounts) : MountMatches(Mounts[i], url)}
    IN  IF hits = {} THEN <<>>
        ELSE Mounts[CHOOSE i \in hits : \A j \in hits : i <= j]

---------------------------------------------------------------------------
(* app/views/<version>/routing.js: the version router *)

\* Variant: the nested handlers redirect to the top-level pages.
StackFlatTargets ==
    << [kind |-> "use",  path |-> <<>>,            target |-> <<>>],
       [kind |-> "post", path |-> Question1,       target |-> Question2],
       [kind |-> "post", path |-> Question2,       target |-> Question1],
       [kind |-> "post", path |-> NestedQuestion1, target |-> Question2],
       [kind |-> "post", path |-> NestedQuestion2, target |-> Question1] >>

\* The layers of subRouter in registration order.
Stack ==
    << [kind |-> "use",  path |-> <<>>,            target |-> <<>>],
       [kind |-> "post", path |-> Question1,       target |-> Question2],
       [kind |-> "post", path |-> Question2,       target |-> Question1],
       [kind |-> "post", path |-> NestedQuestion1, target |-> NestedQuestion2],
       [kind |-> "post", path |-> NestedQuestion2, target |-> NestedQuestion1] >>

\* A use() layer without a path matches every request; a post() layer matches
\* a POST whose path equals the route path.
LayerMatches(l, method, path) ==
    l.kind = "use" \/ (method = "POST" /\ l.path = path)

\* Index of the first layer at or after k that matches, Len(Stack) + 1 if none.
NextMatch(k, method, path) ==
    LET hits == {i \in k..Len(Stack) : LayerMatches(Stack[i], method, path)}
    IN  IF hits = {} THEN Len(Stack) + 1
        ELSE CHOOSE i \in hits : \A j \in hits : i <= j

\* Variant: the wrapper validates the path and throws on an empty segment.
ThrowsOnMalformed(url) ==
    \/ ~(url \in Seq(Char))
    \/ \E i \in 1..(Len(url) - 1) : url[i] = "/" /\ url[i + 1] = "/"

\* url.startsWith(...) is a TypeError when url is not a string.
Throws(url) == ~(url \in Seq(Char))

\* Variant: the already-prefixed test is missing.
NeedsPrefixNoGuard(baseUrl, url) == StartsWith(url, Slash)

\* Variant: the leading-slash test is missing.
NeedsPrefixAnyTarget(baseUrl, url) == ~StartsWith(url, baseUrl)

\* url.startsWith('/') && !url.startsWith(req.baseUrl)
NeedsPrefix(baseUrl, url) == StartsWith(url, Slash) /\ ~StartsWith(url, baseUrl)

\* Variant: the prefix is joined with a separator of its own.
RewriteUrlExtraSlash(baseUrl, url) ==
    IF StartsWith(url, Slash) /\ ~StartsWith(url, baseUrl)
    THEN baseUrl \o Slash \o url
    ELSE url

\* Variant: the concatenation is computed but not assigned to url.
RewriteUrlUnassigned(baseUrl, url) == url

\* The url the wrapper hands to originalRedirect.
RewriteUrl(baseUrl, url) == IF NeedsPrefix(baseUrl, url) THEN baseUrl \o url ELSE url

---------------------------------------------------------------------------
(* Further strings: request URLs and redirect targets *)

Other == <<"/", "o", "t", "h", "e", "r">>

V10Question1 == <<"/", "v", "1", "0">> \o Question1

RelQuestion2 == <<"q", "u", "e", "s", "t", "i", "o", "n", "-", "2">>

HttpsExample == <<"h", "t", "t", "p", "s", ":", "/", "/", "e", "x", "a", "m",
                  "p", "l", "e", ".", "c", "o", "m">>

\* The route paths registered by subRouter.post.
Routes == {Stack[i].path : i \in {j \in 1..Len(Stack) : Stack[j].kind = "post"}}

\* The question pages of every mounted version.
QuestionPages == {m \o p : m \in MountSet, p \in Routes}

\* Pages a browser may start on: the question pages, a page of a version
\* without a route, and a page under no mounted version.
StartUrls == QuestionPages \cup {V1 \o Other, V10Question1}

\* Targets a handler may pass to res.redirect (SpecRedirect).
Targets ==
    Strs(MaxLen) \cup {Question1, Question2, NestedQuestion1, NestedQuestion2,
                       V1 \o Question2, V2 \o Question1, V10Question1,
                       RelQuestion2, HttpsExample}

---------------------------------------------------------------------------
(* Requests and responses *)

Clients == 1..NumClients

\* A fresh req/res pair: res.redirect is Express's own.
NoRequest ==
    [method |-> "none", baseUrl |-> <<>>, path |-> <<>>, layer |-> 0,
     redirect |-> "native", originalRedirect |-> "none",
     installs |-> 0, nexts |-> 0, handlerRuns |-> 0,
     origCalls |-> 0, origThis |-> 0,
     target |-> <<>>, location |-> <<>>, threw |-> FALSE]

NewClient(u) == [start |-> u, page |-> u, pc |-> "viewing", req |-> NoRequest]

\* The request the main router hands to the router mounted at m.
NewRequest(m, method, url) ==
    [NoRequest EXCEPT !.method = method,
                      !.baseUrl = m,
                      !.path = SubSeq(url, Len(m) + 1, Len(url)),
                      !.layer = 1]

\* Variant: the middleware installs the wrapper and does not call next().
RunMiddlewareNoNext(r, k) ==
    [r EXCEPT !.originalRedirect = r.redirect,
              !.redirect = "wrapped",
              !.installs = @ + 1,
              !.layer = Len(Stack) + 1]

\* The middleware at layer k: keep res.redirect, replace it, call next().
RunMiddleware(r, k) ==
    [r EXCEPT !.originalRedirect = r.redirect,
              !.redirect = "wrapped",
              !.installs = @ + 1,
              !.nexts = @ + 1,
              !.layer = k + 1]

\* Variant: req is kept in a variable of the module, shared by all requests
\* whose middleware has run.
ClosureBaseUrlShared(c) ==
    LET others == {d \in DOMAIN clients : d # c /\ clients[d].req.installs > 0}
    IN  IF others = {} THEN clients[c].req.baseUrl
        ELSE clients[CHOOSE d \in others : TRUE].req.baseUrl

\* req.baseUrl as the wrapper installed for client c's request reads it: req is
\* the parameter of that request's middleware call, captured by the closure.
ClosureBaseUrl(c) == clients[c].req.baseUrl

\* The receiver the wrapper passes on: originalRedirect.call(this, url), where
\* this is the response the handler called redirect on.
OriginalThis(c) == c

\* Express's res.redirect on response `this`: responds with Location: url.
CallOriginal(r, this, url) ==
    [r EXCEPT !.origCalls = @ + 1, !.origThis = this, !.location = url]

\* The wrapper function(url) installed by the middleware.
WrappedRedirect(r, this, baseUrl, url) ==
    IF Throws(url) THEN [r EXCEPT !.threw = TRUE]
    ELSE CallOriginal(r, this, RewriteUrl(baseUrl, url))

\* res.redirect(url) as called by a handler of client c's request.
CallRedirect(c, r, url) ==
    IF r.redirect = "wrapped"
    THEN WrappedRedirect(r, OriginalThis(c), ClosureBaseUrl(c), url)
    ELSE CallOriginal(r, c, url)

\* The post handler at layer k: res.redirect(<its literal target>).
RunHandler(c, r, k) ==
    CallRedirect(c, [r EXCEPT !.handlerRuns = @ + 1,
                              !.target = Stack[k].target,
                              !.layer = k],
                 Stack[k].target)

\* The browser's resolution of a Location header against the current page.
Resolve(page, loc) ==
    IF StartsWith(loc, Slash) THEN loc
    ELSE LET cuts == {i \in 1..Len(page) : page[i] = "/"}
             last == IF cuts = {} THEN 0
                     ELSE CHOOSE i \in cuts : \A j \in cuts : j <= i
         IN  SubSeq(page, 1, last) \o loc

---------------------------------------------------------------------------
(* Spec: browsers submitting forms *)

IdleCall ==
    [baseUrl |-> V1, url |-> <<>>, pc |-> "idle", out |-> <<>>, out2 |-> <<>>,
     origCalls |-> 0, reCalls |-> 0]

Init ==
    /\ clients \in [Clients -> {NewClient(u) : u \in StartUrls}]
    /\ call = IdleCall

\* The form has no action attribute: the POST goes to the page's own URL and
\* the main router dispatches it to the router mounted there.
Submit(c) ==
    /\ clients[c].pc = "viewing"
    /\ LET url == clients[c].page
           m == MountOf(url)
       IN  clients' = [clients EXCEPT ![c] =
               IF m = <<>>
               THEN [@ EXCEPT !.pc = "notfound"]
               ELSE [@ EXCEPT !.pc = "inflight", !.req = NewRequest(m, "POST", url)]]
    /\ UNCHANGED call

\* The next matching layer is the middleware (requests of every method).
Middleware(c) ==
    /\ clients[c].pc \in {"inflight", "loading"}
    /\ LET r == clients[c].req
           k == NextMatch(r.layer, r.method, r.path)
       IN  /\ k <= Len(Stack)
           /\ Stack[k].kind = "use"
           /\ clients' = [clients EXCEPT ![c].req = RunMiddleware(r, k)]
    /\ UNCHANGED call

\* The next matching layer is a post handler; it redirects and does not call next.
Handler(c) ==
    /\ clients[c].pc = "inflight"
    /\ LET r == clients[c].req
           k == NextMatch(r.layer, r.method, r.path)
       IN  /\ k <= Len(Stack)
           /\ Stack[k].kind = "post"
           /\ LET r2 == RunHandler(c, r, k)
              IN  clients' = [clients EXCEPT ![c] =
                      [@ EXCEPT !.req = r2,
                                !.pc = IF r2.threw THEN "error" ELSE "redirected"]]
    /\ UNCHANGED call

\* No layer is left for a POST: the request leaves the version router
\* unanswered and the kit answers 404.
NotFound(c) ==
    /\ clients[c].pc = "inflight"
    /\ LET r == clients[c].req
       IN  NextMatch(r.layer, r.method, r.path) > Len(Stack)
    /\ clients' = [clients EXCEPT ![c].pc = "notfound"]
    /\ UNCHANGED call

\* The browser follows the redirect with a GET of the resolved Location; the
\* POST's req/res pair is gone.
Follow(c) ==
    /\ clients[c].pc = "redirected"
    /\ LET url == Resolve(clients[c].page, clients[c].req.location)
           m == MountOf(url)
       IN  clients' = [clients EXCEPT ![c] =
               IF m = <<>>
               THEN [@ EXCEPT !.page = url, !.pc = "notfound", !.req = NoRequest]
               ELSE [@ EXCEPT !.page = url, !.pc = "loading",
                              !.req = NewRequest(m, "GET", url)]]
    /\ UNCHANGED call

\* No layer is left for a GET: the kit renders the page's view.
Render(c) ==
    /\ clients[c].pc = "loading"
    /\ LET r == clients[c].req
       IN  NextMatch(r.layer, r.method, r.path) > Len(Stack)
    /\ clients' = [clients EXCEPT ![c] = [@ EXCEPT !.pc = "viewing", !.req = NoRequest]]
    /\ UNCHANGED call

Next ==
    \E c \in Clients :
        \/ Submit(c)
        \/ Middleware(c)
        \/ Handler(c)
        \/ NotFound(c)
        \/ Follow(c)
        \/ Render(c)

Spec == Init /\ [][Next]_vars

---------------------------------------------------------------------------
(* SpecRedirect: one wrapped res.redirect call, then a call on its output *)

ReadyCall(b, u) == [IdleCall EXCEPT !.baseUrl = b, !.url = u, !.pc = "ready"]

\* The response of the call, as a req/res pair routed under call.baseUrl whose
\* middleware has run.
CallResponse == RunMiddleware(NewRequest(call.baseUrl, "POST", call.baseUrl), 1)

\* res.redirect(url) on that response: the wrapper's closure holds the request
\* routed under call.baseUrl.
SendRedirect(url) ==
    IF CallResponse.redirect = "wrapped"
    THEN WrappedRedirect(CallResponse, 1, CallResponse.baseUrl, url)
    ELSE CallOriginal(CallResponse, 1, url)

InitRedirect ==
    /\ clients = [c \in Clients |-> NewClient(V1 \o Question1)]
    /\ call \in {ReadyCall(b, u) : b \in MountSet, u \in Targets}

\* A handler under call.baseUrl calls res.redirect(call.url).
Redirect ==
    /\ call.pc = "ready"
    /\ LET r == SendRedirect(call.url)
       IN  call' = [call EXCEPT !.pc = IF r.threw THEN "threw" ELSE "sent",
                                !.out = r.location,
                                !.origCalls = r.origCalls]
    /\ UNCHANGED clients

\* A handler under the same prefix redirects to the first call's output.
RedirectAgain ==
    /\ call.pc = "sent"
    /\ LET r == SendRedirect(call.out)
       IN  call' = [call EXCEPT !.pc = IF r.threw THEN "threw" ELSE "resent",
                                !.out2 = r.location,
                                !.reCalls = r.origCalls]
    /\ UNCHANGED clients

NextRedirect == Redirect \/ RedirectAgain

SpecRedirect == InitRedirect /\ [][NextRedirect]_vars

---------------------------------------------------------------------------
(* Properties of the wrapped redirect (SpecRedirect) *)

\* C1: a target that starts with "/" and does not start with the prefix is
\* handed to the original redirect as prefix + target, the target unmodified
\* and whatever its depth.
C1_PrefixIsConcatenated ==
    (/\ call.pc \in {"sent", "resent"}
     /\ StartsWith(call.url, Slash)
     /\ ~StartsWith(call.url, call.baseUrl))
    => (call.out = call.baseUrl \o call.url /\ call.origCalls = 1)

C1_Witness ==
    /\ call.pc = "sent"
    /\ call.baseUrl = V1
    /\ call.url = NestedQuestion2
    /\ call.out = V1 \o NestedQuestion2

\* C2: a target that already starts with the prefix is handed on unchanged,
\* and rewriting the output of a rewrite gives that output again.
C2_Idempotent ==
    /\ (call.pc \in {"sent", "resent"} /\ StartsWith(call.url, call.baseUrl))
           => call.out = call.url
    /\ call.pc = "resent" => call.out2 = call.out

C2_Witness ==
    /\ call.pc = "resent"
    /\ call.baseUrl = V1
    /\ call.url = V1 \o Question2
    /\ call.out2 = V1 \o Question2

\* C3: a target that does not start with "/" is handed to the original
\* redirect unchanged, under every prefix.
C3_RelativeUnchanged ==
    (call.pc \in {"sent", "resent"} /\ ~StartsWith(call.url, Slash))
    => (call.out = call.url /\ call.origCalls = 1)

C3_Witness ==
    /\ call.pc = "sent"
    /\ call.baseUrl = V2
    /\ call.url = HttpsExample
    /\ call.out = HttpsExample

\* C4: a redirect to a target starting with "/" issued under mount prefix P
\* ends at a target under P: it begins with P, the main router dispatches it
\* to P's router, and to no other mounted router.
C4_StaysUnderOwnMount ==
    (call.pc \in {"sent", "resent"} /\ StartsWith(call.url, Slash))
    => /\ StartsWith(call.out, call.baseUrl)
       /\ MountOf(call.out) = call.baseUrl
       /\ \A q \in MountSet \ {call.baseUrl} : ~MountMatches(q, call.out)

C8_SegmentComparison ==
    (/\ call.pc \in {"sent", "resent"}
     /\ StartsWith(call.url, Slash)
     /\ ~(call.url = call.baseUrl \/ StartsWith(call.url, call.baseUrl \o Slash)))
    => call.out = call.baseUrl \o call.url

---------------------------------------------------------------------------
(* Properties of the form journeys (Spec) *)

\* C7: a browser that started on a question page is always on a page of the
\* same version and nesting level: the two top-level questions redirect to
\* each other, the two nested questions redirect to each other, and no
\* submission ends unanswered.
C7_SameVersionAndLevel ==
    \A c \in Clients :
        clients[c].start \in QuestionPages =>
            LET m == MountOf(clients[c].start)
                top == {m \o Question1, m \o Question2}
                nested == {m \o NestedQuestion1, m \o NestedQuestion2}
                group == IF clients[c].start \in top THEN top ELSE nested
            IN  /\ clients[c].page \in group
                /\ clients[c].pc \notin {"notfound", "error"}
                /\ clients[c].pc = "redirected"
                       => /\ clients[c].req.location \in group
                          /\ clients[c].req.location # clients[c].page

C7_Witness ==
    \E c \in Clients :
        /\ clients[c].start = V1 \o NestedQuestion1
        /\ clients[c].page = V1 \o NestedQuestion2
        /\ clients[c].pc = "viewing"

\* C9: for every request routed into a version router the wrapper is
\* installed once, before any handler runs; the middleware then passes
\* control on; and each redirect call of a handler is one call of the
\* original redirect on the same response.
C9_InstalledOnceBeforeHandlers ==
    /\ [](\A c \in Clients :
            LET r == clients[c].req
            IN  /\ r.installs <= 1
                /\ r.nexts = r.installs
                /\ r.layer >= 2 => r.installs = 1
                /\ r.handlerRuns > 0
                       => r.redirect = "wrapped" /\ r.originalRedirect = "native"
                /\ r.origCalls = r.handlerRuns
                /\ r.origCalls > 0 => r.origThis = c
                /\ clients[c].pc = "redirected" => r.handlerRuns = 1)
    /\ [][\A c \in Clients :
            clients'[c].req.handlerRuns > clients[c].req.handlerRuns
                => /\ clients[c].req.installs = 1
                   /\ clients[c].req.redirect = "wrapped"]_vars

C9_Witness ==
    \E c \in Clients :
        /\ clients[c].pc = "redirected"
        /\ clients[c].req.installs = 1
        /\ clients[c].req.nexts = 1
        /\ clients[c].req.handlerRuns = 1
        /\ clients[c].req.origCalls = 1
        /\ clients[c].req.origThis = c

\* C10: whatever the interleaving, a request's final target is determined by
\* its own mount prefix and its handler's target, and carries no other
\* request's prefix.
C10_RequestScoped ==
    \A c \in Clients :
        clients[c].pc = "redirected" =>
            LET r == clients[c].req
            IN  /\ r.baseUrl = MountOf(clients[c].page)
                /\ r.location =
                       IF StartsWith(r.target, Slash) /\ ~StartsWith(r.target, r.baseUrl)
                       THEN r.baseUrl \o r.target
                       ELSE r.target
                /\ \A q \in MountSet \ {r.baseUrl} : ~StartsWith(r.location, q)

C10_Witness ==
    \E c, d \in Clients :
        /\ clients[c].pc = "redirected"
        /\ clients[c].req.baseUrl = V1
        /\ clients[c].req.location = V1 \o Question2
        /\ clients[d].pc = "inflight"
        /\ clients[d].req.baseUrl = V2
        /\ clients[d].req.installs = 1

====
